---- MODULE Spec2Model ----
(***************************************************************************)
(* State-machine model of the NSP agent portal: the Flask facade of        *)
(* app.py (process_sow, download_proposal) driving the service selected at *)
(* start-up (simple_sow_service.SOWProposalService or MockSOWService)      *)
(* against the remote agent runtime (threads, messages, runs).             *)
(*                                                                         *)
(* Text is modelled as sequences of Unicode code points, bytes as          *)
(* sequences of numbers 0..255.                                            *)
(***************************************************************************)
EXTENDS Integers, Sequences, FiniteSets, TLC

(***************************************************************************)
(* Bounds of the model.                                                    *)
(***************************************************************************)
\* Number of uploads (each served by its own Flask worker thread).
NReq == 2
\* With several uploads in flight the runtime is taken to finish a run
\* within this many status queries; a single upload is also followed
\* against a runtime that may keep its run unfinished for ever.
MaxSlowPolls == 1

Reqs == 1..NReq

(***************************************************************************)
(* Program constants.                                                      *)
(***************************************************************************)
\* app.config["MAX_CONTENT_LENGTH"] = 50 * 1024 * 1024
MAX_CONTENT_LENGTH == 52428800
\* max_wait_time = 300 and asyncio.sleep(10) of simple_sow_service
max_wait_time == 300
poll_interval == 10
\* max_wait_time = 600 of sow_service (its loop also sleeps 10)
max_wait_time_sow_service == 600
\* "processing_time": 8 of MockSOWService
mock_processing_time == 8

(***************************************************************************)
(* Characters (code points) and the strings used as inputs.                *)
(***************************************************************************)
DOT == 46
SLASH == 47
SPACE == 32
HYPHEN == 45
UNDERSCORE == 95

\* str.lower() on one code point (ASCII letters; the inputs hold no others
\* with a lower-case form).
LowerChar(c) == IF c >= 65 /\ c <= 90 THEN c + 32 ELSE c

\* str.lower()
Lower(s) == [i \in 1..Len(s) |-> LowerChar(s[i])]

\* str.isalnum() on one code point: ASCII digits and letters, and the
\* Latin-1 letter e-acute (233) used in the inputs.
IsAlnum(c) ==
    \/ c >= 48 /\ c <= 57
    \/ c >= 65 /\ c <= 90
    \/ c >= 97 /\ c <= 122
    \/ c = 233

\* str.rfind(ch): the last index (1-based) of ch in s, 0 when absent.
RFind(s, ch) ==
    LET hits == {i \in 1..Len(s) : s[i] = ch}
    IN  IF hits = {} THEN 0 ELSE CHOOSE i \in hits : \A j \in hits : j <= i

\* os.path.splitext(p)[1] (genericpath._splitext): the text from the last
\* dot on, when that dot lies after the last separator and some character
\* between the separator and the dot is not a dot; otherwise "".
SplitExt(p) ==
    LET sepIndex == RFind(p, SLASH)
        dotIndex == RFind(p, DOT)
    IN  IF dotIndex > sepIndex
           /\ \E k \in (sepIndex + 1)..(dotIndex - 1) : p[k] # DOT
        THEN SubSeq(p, dotIndex, Len(p))
        ELSE << >>

\* allowed_extensions = {".pdf", ".docx", ".doc", ".txt"}
allowed_extensions ==
    { <<46, 112, 100, 102>>,          \* .pdf
      <<46, 100, 111, 99, 120>>,      \* .docx
      <<46, 100, 111, 99>>,           \* .doc
      <<46, 116, 120, 116>> }         \* .txt

\* str.rstrip(): trailing white space removed.
RECURSIVE RStrip(_)
RStrip(s) ==
    IF s # << >> /\ s[Len(s)] = SPACE
    THEN RStrip(SubSeq(s, 1, Len(s) - 1))
    ELSE s

\* "".join(c for c in filename if c.isalnum() or c in (" ", "-", "_"))
RECURSIVE KeepSafe(_)
KeepSafe(s) ==
    IF s = << >> THEN << >>
    ELSE IF IsAlnum(Head(s)) \/ Head(s) \in {SPACE, HYPHEN, UNDERSCORE}
         THEN <<Head(s)>> \o KeepSafe(Tail(s))
         ELSE KeepSafe(Tail(s))

\* safe_filename of download_proposal
SafeFilename(filename) == RStrip(KeepSafe(filename))

\* f"Azure-Proposal-{safe_filename}.txt"
DownloadName(filename) ==
    <<65, 122, 117, 114, 101, 45, 80, 114, 111, 112, 111, 115, 97, 108, 45>>
        \o SafeFilename(filename) \o <<46, 116, 120, 116>>

\* str.encode("utf-8") of one code point below U+0800.
Utf8Char(c) ==
    IF c < 128 THEN <<c>> ELSE <<192 + (c \div 64), 128 + (c % 64)>>

\* str.encode("utf-8")
RECURSIVE Utf8(_)
Utf8(s) == IF s = << >> THEN << >> ELSE Utf8Char(Head(s)) \o Utf8(Tail(s))

(***************************************************************************)
(* Inputs: uploads, and what the remote agent runtime may answer.          *)
(***************************************************************************)
FN_EMPTY   == << >>                                  \* ""
FN_A_XLS   == <<97, 46, 120, 108, 115>>              \* "a.xls"
FN_A       == <<97>>                                 \* "a"
FN_DOT_TXT == <<46, 116, 120, 116>>                  \* ".txt"
FN_DIR     == <<97, 46, 116, 120, 116, 47, 98>>      \* "a.txt/b"
FN_A_TXT   == <<97, 46, 116, 120, 116>>              \* "a.txt"
FN_B_PDF   == <<98, 95, 49, 46, 99, 46, 80, 68, 70>> \* "b_1.c.PDF"
FN_D_A_TXT == <<100, 47, 97, 46, 116, 120, 116>>     \* "d/a.txt"

Filenames ==
    {FN_EMPTY, FN_A_XLS, FN_A, FN_DOT_TXT, FN_DIR, FN_A_TXT, FN_B_PDF,
     FN_D_A_TXT}

\* File sizes in bytes: empty, small, and one that pushes the request over
\* MAX_CONTENT_LENGTH.
FileSizes == {0, 10, MAX_CONTENT_LENGTH}

\* The multipart request around a file of nbytes bytes is larger than the
\* file itself (boundary and part headers).
ContentLength(u) == u.nbytes + 200

\* An upload: whether the form has a "file" part, its filename, its size.
Uploads ==
    {[has_file |-> FALSE, filename |-> FN_EMPTY, nbytes |-> 0]}
    \cup [has_file : {TRUE}, filename : Filenames, nbytes : FileSizes]

NoUpload == [has_file |-> FALSE, filename |-> FN_EMPTY, nbytes |-> 0]

\* Run statuses of the runtime.
LoopStatuses == {"queued", "in_progress", "requires_action"}
FailStatuses == {"failed", "expired"}
RunStatuses == LoopStatuses \cup {"completed"} \cup FailStatuses

\* A run as the client sees it: its status and whether last_error is set.
RunObjects ==
    {ro \in [status : RunStatuses, last_error : BOOLEAN] :
        ro.status = "completed" => ~ro.last_error}

NoRun == [status |-> "none", last_error |-> FALSE]

\* The runtime moves a run forward only: queued, in_progress,
\* requires_action (this client never submits tool outputs), terminal.
Rank(status) ==
    CASE status = "none" -> 0
      [] status = "queued" -> 0
      [] status = "in_progress" -> 1
      [] status = "requires_action" -> 2
      [] OTHER -> 3

\* Messages of a thread: role and content parts (content[0].text.value).
TEXT_OK == <<79, 75>>       \* "OK"
TEXT_E  == <<233>>          \* e-acute
\* [:100] of the previews in debug_messages
PreviewLen == 100
\* The user's message, the prompt around the document: "QQ...Q", longer
\* than a preview.
TEXT_Q  == [i \in 1..(PreviewLen + 1) |-> 81]

Messages ==
    { [role |-> "user", content |-> <<TEXT_Q>>],
      [role |-> "assistant", content |-> <<TEXT_OK>>],
      [role |-> "assistant", content |-> <<TEXT_E>>],
      [role |-> "assistant", content |-> << >>] }

\* Longest message log the runtime returns to a single upload, and to
\* each of several uploads in flight.
MaxLog == 2
MaxLogConcurrent == 1

\* The messages of a thread, oldest first.
MessageLogs == UNION {[1..n -> Messages] : n \in 0..MaxLog}

\* messages.list(thread_id=...) is called without an order: the runtime
\* lists the thread oldest first or newest first.
ListOrders == {"asc", "desc"}

Reverse(s) == [i \in 1..Len(s) |-> s[Len(s) + 1 - i]]

Listing(log, order) == IF order = "asc" THEN log ELSE Reverse(log)

(***************************************************************************)
(* Result dictionaries. keys is the set of keys the dict holds; a field    *)
(* whose key is absent keeps its default.                                  *)
(***************************************************************************)
NoThread == -1

EmptyDict ==
    [keys |-> {}, status |-> "", error |-> "", detail |-> "",
     proposal |-> << >>, thread_id |-> NoThread, processing_time |-> 0,
     run_status |-> "", debug_messages |-> << >>]

\* {"status": "error", "error": msg}
ErrorDict(msg, detail) ==
    [EmptyDict EXCEPT !.keys = {"status", "error"}, !.status = "error",
                      !.error = msg, !.detail = detail]

NoResponse == [code |-> 0, body |-> EmptyDict]

(***************************************************************************)
(* State.                                                                  *)
(***************************************************************************)
VARIABLES
    sow_service,        \* the service chosen at start-up: "live" and "mock"
                        \* of simple_sow_service, "attach" = the
                        \* SOWProposalService of sow_service
    proposals_storage,  \* thread id -> [proposal, filename]
    req,                \* per upload: the handler's position and locals
    threads_created,    \* runtime: number of threads created so far
    dlLast,             \* the last download since an upload ended
    env,                \* the environment: uploads sent, runtime slowness
    startup,            \* os.environ and the outcome of construction
    info,               \* the last answer of /api/health or /api/stats
    applied,            \* the last application of a service function
    script,             \* update_agent-o3.py: its position, the runtime's
                        \* agents
    creator             \* create_agents.py: its position, self.agents, the
                        \* agents and test threads it left at the runtime

\* The portal's variables, and those of the programs beside it.
portal ==
    <<sow_service, proposals_storage, req, threads_created, dlLast, env,
      startup, info>>

aux == <<applied, script, creator>>

vars ==
    <<sow_service, proposals_storage, req, threads_created, dlLast, env,
      startup, info, applied, script, creator>>

\* "thread_id": "mock-o3-123" of MockSOWService. Runtime thread ids are
\* 1, 2, ...
MockThreadId == 0

\* Calls made to the runtime on behalf of one upload, by kind.
NoCalls ==
    [threads |-> 0, files |-> 0, messages |-> 0, runs |-> 0, gets |-> 0,
     lists |-> 0]

IdleReq ==
    [pc |-> "idle", upload |-> NoUpload, thread |-> NoThread, run |-> NoRun,
     wait_time |-> 0, calls |-> NoCalls, messages |-> << >>,
     response |-> NoResponse]

\* Never binds: no loop makes more status queries than this.
Unbounded == (max_wait_time_sow_service \div poll_interval) + 1

\* Either NReq uploads and a runtime that finishes every run within
\* MaxSlowPolls status queries and holds threads of at most
\* MaxLogConcurrent messages, or one upload and an unconstrained runtime.
Environments ==
    { [uploads |-> NReq, slow_polls |-> MaxSlowPolls,
       max_log |-> MaxLogConcurrent],
      [uploads |-> 1, slow_polls |-> Unbounded, max_log |-> MaxLog] }

NoDl == [asked |-> FALSE, thread_id |-> NoThread, code |-> 0,
         body |-> << >>, name |-> << >>]

\* The answer of no /api/health or /api/stats request.
NoInfo ==
    [kind |-> "none", azure_integration |-> "", service_type |-> "",
     proposals_generated |-> 0]

\* os.environ.get(name): "None" stands for None (the variable is unset),
\* "" for a variable set to the empty string.
EnvValues == {"None", "", "set"}

\* The truth value Python gives os.environ.get(name).
Truthy(v) == v \notin {"None", ""}

\* app.py 24: the condition under which SOWProposalService() is called.
BothSet(s) == Truthy(s.PROJECT_ENDPOINT) /\ Truthy(s.ORCHESTRATOR_AGENT_ID)

\* What the process starts with: the two environment variables, and
\* whether the constructor (AIProjectClient, DefaultAzureCredential)
\* raises when it is called.
Startups ==
    {s \in [PROJECT_ENDPOINT : EnvValues, ORCHESTRATOR_AGENT_ID : EnvValues,
            constructor_raises : BOOLEAN] :
        s.constructor_raises => BothSet(s)}

\* SelectService answering live whenever the endpoint is set.
SelectService_EndpointOnly(s) ==
    IF Truthy(s.PROJECT_ENDPOINT) THEN {"live", "attach"} ELSE {"mock"}

\* app.py 10, 22-37: the service is live when PROJECT_ENDPOINT and
\* ORCHESTRATOR_AGENT_ID are set and construction succeeds, mock otherwise.
\* The repository ships two modules with the class SOWProposalService
\* behind the same interface: simple_sow_service (text embedded in the
\* message), which app.py imports, and sow_service (file attached),
\* followed here as the third service, one upload at a time (Init).
SelectService(s) ==
    IF BothSet(s) /\ ~s.constructor_raises
    THEN {"live", "attach"}
    ELSE {"mock"}

\* No service function has been applied.
NoApplied == [kind |-> "none"]

\* update_agent-o3.py 24: orchestrator_agent_id = "asst_jlgj8F8cuGLVqeHv2rgeWcXO";
\* the agent that agents.create() adds gets the next id.
OldAgent == 0
NewAgent == 1

\* update_agent-o3.py has not been started: the runtime holds the old
\* orchestrator agent. returned is "" until update_orchestrator_agent
\* returns (or raises).
ScriptStart ==
    [pc |-> "client", agents |-> {OldAgent}, returned |-> ""]

\* create_agents.py 40-80: the agents in the order create_all_agents
\* creates them.
AgentTypes ==
    <<"parser", "analyzer", "researcher", "generator", "orchestrator">>

\* create_agents.py has not been started. agents is self.agents (the types
\* created so far, in order), runtime the number of agents the script has
\* added at the runtime, threads the number of its test threads left at the
\* runtime, tested the number of agents test_agents has gone through,
\* saved whether agent_ids.env is written, outcome how main() ended.
CreatorStart ==
    [pc |-> "main", agents |-> << >>, runtime |-> 0, threads |-> 0,
     tested |-> 0, saved |-> FALSE, outcome |-> ""]

\* app.py 12-40: the state after start-up; proposals_storage = {}.
Init ==
    /\ applied = NoApplied
    /\ script = ScriptStart
    /\ creator = CreatorStart
    /\ startup \in Startups
    /\ sow_service \in SelectService(startup)
    /\ proposals_storage = << >>
    /\ req = [r \in Reqs |-> IdleReq]
    /\ threads_created = 0
    /\ dlLast = NoDl
    /\ info = NoInfo
    /\ env \in Environments
    /\ sow_service = "attach" => env.uploads = 1

(***************************************************************************)
(* process_sow: the end of the handler (app.py 540-551).                   *)
(***************************************************************************)
\* StoreResult with the write left out.
StoreResult_Forgets(storage, result, filename) == storage

\* StoreResult of a cache that keeps the newest entry only.
StoreResult_KeepsNewest(storage, result, filename) ==
    IF result.status = "success" /\ "thread_id" \in result.keys
    THEN [t \in {result.thread_id} |->
             [proposal |-> result.proposal, filename |-> filename]]
    ELSE storage

\* app.py 541-546: the entry written for a service result, if any.
StoreResult(storage, result, filename) ==
    IF result.status = "success" /\ "thread_id" \in result.keys
    THEN [t \in DOMAIN storage \cup {result.thread_id} |->
             IF t = result.thread_id
             THEN [proposal |-> result.proposal, filename |-> filename]
             ELSE storage[t]]
    ELSE storage

\* The HTTP status of "return jsonify(result)" (app.py 548).
ResultHttpCode(result) == 200

\* app.py 540-548: store the service's result and answer with it. q is the
\* upload's record with the service's locals as they are at its return.
ReturnResult(r, q, result) ==
    /\ req' = [req EXCEPT ![r] =
                 [q EXCEPT !.pc = "done",
                           !.response = [code |-> ResultHttpCode(result),
                                         body |-> result]]]
    /\ proposals_storage' =
           StoreResult(proposals_storage, result, q.upload.filename)
    /\ dlLast' = NoDl
    /\ info' = NoInfo

\* A validation answer or the handler's own except clause: nothing stored.
ReturnError(r, q, code, msg) ==
    /\ req' = [req EXCEPT ![r] =
                 [q EXCEPT !.pc = "done",
                           !.response = [code |-> code,
                                         body |-> ErrorDict(msg, "")]]]
    /\ UNCHANGED proposals_storage
    /\ dlLast' = NoDl
    /\ info' = NoInfo

(***************************************************************************)
(* process_sow: validation (app.py 498-528).                               *)
(***************************************************************************)
\* The first check that fails, "" when the upload is valid.
ValidationError(u) ==
    IF ~u.has_file THEN "No file uploaded"
    ELSE IF u.filename = << >> THEN "No file selected"
    ELSE IF SplitExt(Lower(u.filename)) \notin allowed_extensions
         THEN "Unsupported file type"
    ELSE IF u.nbytes = 0 THEN "File is empty"
    ELSE ""

\* ServiceEntry of a service that creates the run first.
ServiceEntry_RunFirst ==
    CASE sow_service = "mock" -> "mock_sleep"
      [] sow_service = "live" -> "runs_create"
      [] sow_service = "attach" -> "create_run"

\* Where the service starts for a valid upload.
ServiceEntry ==
    CASE sow_service = "mock" -> "mock_sleep"
      [] sow_service = "live" -> "threads_create"
      [] sow_service = "attach" -> "create_thread"

\* An upload u arrives and is validated. A request over MAX_CONTENT_LENGTH
\* makes request.files raise inside the try block (app.py 500, 550-551).
ProcessSow(r, u) ==
    /\ req[r].pc = "idle"
    /\ r <= env.uploads
    /\ \A k \in Reqs : k < r => req[k].pc # "idle"
    /\ UNCHANGED <<aux, sow_service, startup, threads_created, env>>
    /\ LET q == [req[r] EXCEPT !.upload = u]
       IN  IF ContentLength(u) > MAX_CONTENT_LENGTH
           THEN ReturnError(r, q, 500, "Server error")
           ELSE IF ValidationError(u) # ""
           THEN ReturnError(r, q, 400, ValidationError(u))
           ELSE /\ req' = [req EXCEPT ![r] = [q EXCEPT !.pc = ServiceEntry]]
                /\ UNCHANGED <<proposals_storage, dlLast, info>>

(***************************************************************************)
(* simple_sow_service.SOWProposalService._process_with_orchestrator        *)
(***************************************************************************)
\* OrchestratorExcept answering with a dict that has no "error" key.
OrchestratorExcept_NoErrorKey(call) ==
    [EmptyDict EXCEPT !.keys = {"status", "message"}, !.status = "failed",
                      !.detail = call]

\* OrchestratorExcept leaving str(e) out of the error.
OrchestratorExcept_NoDetail(call) ==
    ErrorDict("Orchestrator processing failed", "")

\* simple_sow_service.py 253-261: the except clause around the whole body.
\* call names the remote call (or step) that raised.
OrchestratorExcept(call) ==
    ErrorDict("Orchestrator processing failed", call)

\* Called for a client that repeats every call once.
Called_Twice(q, k) == [q EXCEPT !.calls[k] = @ + 2]

\* One more remote call of kind k made by upload record q.
Called(q, k) == [q EXCEPT !.calls[k] = @ + 1]

\* simple_sow_service.py 80: threads.create() returns a fresh thread id or
\* raises.
ThreadsCreate(r) ==
    /\ req[r].pc = "threads_create"
    /\ UNCHANGED <<aux, sow_service, startup, env>>
    /\ LET q == Called(req[r], "threads")
       IN  \/ /\ threads_created' = threads_created + 1
              /\ req' = [req EXCEPT ![r] =
                           [q EXCEPT !.pc = "messages_create",
                                     !.thread = threads_created + 1]]
              /\ UNCHANGED <<proposals_storage, dlLast, info>>
           \/ /\ UNCHANGED threads_created
              /\ ReturnResult(r, q, OrchestratorExcept("threads.create"))

\* simple_sow_service.py 160-162: messages.create(thread_id, "user", ...).
MessagesCreate(r) ==
    /\ req[r].pc = "messages_create"
    /\ UNCHANGED <<aux, sow_service, startup, threads_created, env>>
    /\ LET q == Called(req[r], "messages")
       IN  \/ /\ req' = [req EXCEPT ![r] = [q EXCEPT !.pc = "runs_create"]]
              /\ UNCHANGED <<proposals_storage, dlLast, info>>
           \/ ReturnResult(r, q, OrchestratorExcept("messages.create"))

\* simple_sow_service.py 166-175: runs.create(...) returns the run in
\* whatever status the runtime gives it, or raises; wait_time = 0.
RunsCreate(r) ==
    /\ req[r].pc = "runs_create"
    /\ UNCHANGED <<aux, sow_service, startup, threads_created, env>>
    /\ LET q == Called(req[r], "runs")
       IN  \/ \E ro \in RunObjects :
                /\ req' = [req EXCEPT ![r] =
                             [q EXCEPT !.pc = "poll", !.run = ro,
                                       !.wait_time = 0]]
                /\ UNCHANGED <<proposals_storage, dlLast, info>>
           \/ ReturnResult(r, q, OrchestratorExcept("runs.create"))

\* LoopCondition of a loop that queries before it tests (do-while).
LoopCondition_DoWhile(q) ==
    \/ q.calls.gets = 0
    \/ /\ q.run.status \in {"queued", "in_progress", "requires_action"}
       /\ q.wait_time < max_wait_time

\* simple_sow_service.py 178-181: the while condition.
LoopCondition(q) ==
    /\ q.run.status \in {"queued", "in_progress", "requires_action"}
    /\ q.wait_time < max_wait_time

\* simple_sow_service.py 182-186: one pass of the loop: sleep, add the
\* interval, query the run (which may raise).
Poll(r) ==
    /\ req[r].pc = "poll"
    /\ LoopCondition(req[r])
    /\ UNCHANGED <<aux, sow_service, startup, threads_created, env>>
    /\ LET q == [Called(req[r], "gets") EXCEPT
                    !.wait_time = @ + poll_interval]
       IN  \/ \E ro \in RunObjects :
                /\ Rank(ro.status) >= Rank(q.run.status)
                /\ q.calls.gets > env.slow_polls
                       => ro.status \notin LoopStatuses
                /\ req' = [req EXCEPT ![r] = [q EXCEPT !.run = ro]]
                /\ UNCHANGED <<proposals_storage, dlLast, info>>
           \/ ReturnResult(r, q, OrchestratorExcept("runs.get"))

\* simple_sow_service.py 202-208: the last message of the listed
\* sequence whose role is assistant (index 0 when there is none).
ProposalIndex(log) ==
    LET hits == {i \in 1..Len(log) : log[i].role = "assistant"}
    IN  IF hits = {} THEN 0 ELSE CHOOSE i \in hits : \A j \in hits : j <= i

SuccessKeys ==
    {"status", "proposal", "thread_id", "processing_time", "timestamp",
     "agent_used", "model_used", "filename", "document_length"}

\* simple_sow_service.py 214: f"{msg.role}: {msg.content[0].text.value[:100]}..."
Preview(msg) ==
    LET text == msg.content[1]
    IN  [role |-> msg.role,
         text |-> SubSeq(text, 1, IF Len(text) < PreviewLen THEN Len(text)
                                  ELSE PreviewLen)
                     \o <<46, 46, 46>>]

\* simple_sow_service.py 201-235: the result for a completed run whose
\* messages are listed as log. The error for a log without assistant
\* message iterates the listing a second time (213-216): rewinds tells
\* whether the listing can be iterated again (a list) or is used up by
\* list(messages) (an iterator, as a paged result is).
ExtractResult(q, log, rewinds) ==
    LET i == ProposalIndex(log)
    IN  IF i = 0
        THEN IF rewinds /\ \E k \in 1..Len(log) : log[k].content = << >>
             THEN OrchestratorExcept("content[0]")
             ELSE [ErrorDict("No assistant response found in thread", "")
                      EXCEPT !.keys = {"status", "error", "debug_messages"},
                             !.debug_messages =
                                 IF rewinds
                                 THEN [k \in 1..Len(log) |-> Preview(log[k])]
                                 ELSE << >>]
        ELSE IF log[i].content = << >>
        THEN OrchestratorExcept("content[0]")
        ELSE [EmptyDict EXCEPT !.keys = SuccessKeys,
                               !.status = "success",
                               !.proposal = log[i].content[1],
                               !.thread_id = q.thread,
                               !.processing_time = q.wait_time]

\* FailureResult reporting the time of one more pass than the loop made.
FailureResult_CountsExtraPass(q) ==
    [EmptyDict EXCEPT
        !.keys = {"status", "error", "processing_time", "run_status",
                  "model_used"},
        !.status = "error",
        !.error = "GPT-4o processing failed with status",
        !.detail = IF q.run.last_error THEN "last_error"
                   ELSE IF q.wait_time >= max_wait_time
                        THEN "Processing timeout (5 minutes exceeded)"
                        ELSE "",
        !.processing_time = q.wait_time + poll_interval,
        !.run_status = q.run.status]

\* simple_sow_service.py 236-251: the result for a run that did not end
\* completed.
FailureResult(q) ==
    [EmptyDict EXCEPT
        !.keys = {"status", "error", "processing_time", "run_status",
                  "model_used"},
        !.status = "error",
        !.error = "GPT-4o processing failed with status",
        !.detail = IF q.run.last_error THEN "last_error"
                   ELSE IF q.wait_time >= max_wait_time
                        THEN "Processing timeout (5 minutes exceeded)"
                        ELSE "",
        !.processing_time = q.wait_time,
        !.run_status = q.run.status]

\* RunCompleted taking every status but failed for a completion.
RunCompleted_Lax(q) == q.run.status # "failed"

\* RunCompleted going on to the messages after a timeout as well.
RunCompleted_OrTimedOut(q) ==
    q.run.status = "completed" \/ q.wait_time >= max_wait_time

\* RunCompleted refusing a run that completed on the last permitted pass.
RunCompleted_BeforeCeiling(q) ==
    q.run.status = "completed" /\ q.wait_time < max_wait_time

\* simple_sow_service.py 196: if run.status == "completed"
RunCompleted(q) == q.run.status = "completed"

\* simple_sow_service.py 194-251 and app.py 540-548: the loop has ended;
\* a completed run's messages are listed (which may raise) and searched,
\* the result is stored and returned.
RunEnded(r) ==
    /\ req[r].pc = "poll"
    /\ ~LoopCondition(req[r])
    /\ UNCHANGED <<aux, sow_service, startup, threads_created, env>>
    /\ IF RunCompleted(req[r])
       THEN LET q == Called(req[r], "lists")
            IN  \/ \E log \in MessageLogs, order \in ListOrders,
                         rewinds \in BOOLEAN :
                      /\ Len(log) <= env.max_log
                      /\ ReturnResult(r, [q EXCEPT !.messages = log],
                             ExtractResult(q, Listing(log, order), rewinds))
                \/ ReturnResult(r, q, OrchestratorExcept("messages.list"))
       ELSE ReturnResult(r, req[r], FailureResult(req[r]))

(***************************************************************************)
(* sow_service.SOWProposalService._process_with_orchestrator               *)
(***************************************************************************)
\* sow_service.py 463-467
AttachExcept(call) == ErrorDict("Orchestrator processing failed", call)

\* sow_service.py 358
AttachCreateThread(r) ==
    /\ req[r].pc = "create_thread"
    /\ UNCHANGED <<aux, sow_service, startup, env>>
    /\ LET q == Called(req[r], "threads")
       IN  \/ /\ threads_created' = threads_created + 1
              /\ req' = [req EXCEPT ![r] =
                           [q EXCEPT !.pc = "upload_file",
                                     !.thread = threads_created + 1]]
              /\ UNCHANGED <<proposals_storage, dlLast, info>>
           \/ /\ UNCHANGED threads_created
              /\ ReturnResult(r, q, AttachExcept("create_thread"))

\* sow_service.py 359-371, 459-467: the inner try block is left, by a return
\* or by an exception, through finally: os.unlink(temp_file_path); when the
\* removal raises, its error replaces the result or the exception and the
\* except clause answers with it.
AttachReturn(r, q, result) ==
    \/ ReturnResult(r, q, result)
    \/ ReturnResult(r, q, AttachExcept("os.unlink"))

\* sow_service.py 361-363: NamedTemporaryFile(suffix=f"_{filename}") puts
\* the filename in the path of the temporary file: with a "/" in it the
\* path names a directory that does not exist and the call raises.
TempFileRaises(filename) == \E i \in 1..Len(filename) : filename[i] = SLASH

\* sow_service.py 360-371, 463-467: the document is written to a temporary
\* file, which raises for a filename with a "/" and may raise for any
\* other (the temporary directory cannot be written), before any call of
\* the runtime; the file is then uploaded to the runtime.
AttachUploadFile(r) ==
    /\ req[r].pc = "upload_file"
    /\ UNCHANGED <<aux, sow_service, startup, threads_created, env>>
    /\ \/ ReturnResult(r, req[r], AttachExcept("NamedTemporaryFile"))
       \/ /\ ~TempFileRaises(req[r].upload.filename)
          /\ LET q == Called(req[r], "files")
             IN  \/ /\ req' = [req EXCEPT ![r] =
                                  [q EXCEPT !.pc = "create_message"]]
                    /\ UNCHANGED <<proposals_storage, dlLast, info>>
                 \/ AttachReturn(r, q, AttachExcept("upload_file"))

\* sow_service.py 393-398, 459-467
AttachCreateMessage(r) ==
    /\ req[r].pc = "create_message"
    /\ UNCHANGED <<aux, sow_service, startup, threads_created, env>>
    /\ LET q == Called(req[r], "messages")
       IN  \/ /\ req' = [req EXCEPT ![r] = [q EXCEPT !.pc = "create_run"]]
              /\ UNCHANGED <<proposals_storage, dlLast, info>>
           \/ AttachReturn(r, q, AttachExcept("create_message"))

\* sow_service.py 401-407, 459-467
AttachCreateRun(r) ==
    /\ req[r].pc = "create_run"
    /\ UNCHANGED <<aux, sow_service, startup, threads_created, env>>
    /\ LET q == Called(req[r], "runs")
       IN  \/ \E ro \in RunObjects :
                /\ req' = [req EXCEPT ![r] =
                             [q EXCEPT !.pc = "attach_poll", !.run = ro,
                                       !.wait_time = 0]]
                /\ UNCHANGED <<proposals_storage, dlLast, info>>
           \/ AttachReturn(r, q, AttachExcept("create_run"))

\* sow_service.py 409-412: the while condition.
AttachLoopCondition(q) ==
    /\ q.run.status \in {"queued", "in_progress"}
    /\ q.wait_time < max_wait_time_sow_service

\* sow_service.py 413-417, 459-467: one pass of the loop.
AttachPoll(r) ==
    /\ req[r].pc = "attach_poll"
    /\ AttachLoopCondition(req[r])
    /\ UNCHANGED <<aux, sow_service, startup, threads_created, env>>
    /\ LET q == [Called(req[r], "gets") EXCEPT
                    !.wait_time = @ + poll_interval]
       IN  \/ \E ro \in RunObjects :
                /\ Rank(ro.status) >= Rank(q.run.status)
                /\ q.calls.gets > env.slow_polls
                       => ro.status \notin LoopStatuses
                /\ req' = [req EXCEPT ![r] = [q EXCEPT !.run = ro]]
                /\ UNCHANGED <<proposals_storage, dlLast, info>>
           \/ AttachReturn(r, q, AttachExcept("get_run"))

\* sow_service.py 430-432: next(msg for msg in messages if msg.role ==
\* "assistant"): the first assistant message of the listed sequence
\* (index 0 when there is none, where next raises StopIteration).
AttachProposalIndex(log) ==
    LET hits == {i \in 1..Len(log) : log[i].role = "assistant"}
    IN  IF hits = {} THEN 0 ELSE CHOOSE i \in hits : \A j \in hits : i <= j

AttachSuccessKeys ==
    {"status", "proposal", "thread_id", "file_id", "processing_time",
     "timestamp", "agent_used"}

\* sow_service.py 425-444
AttachExtractResult(q, log) ==
    LET i == AttachProposalIndex(log)
    IN  IF i = 0 THEN AttachExcept("next")
        ELSE IF log[i].content = << >> THEN AttachExcept("content[0]")
        ELSE [EmptyDict EXCEPT !.keys = AttachSuccessKeys,
                               !.status = "success",
                               !.proposal = log[i].content[1],
                               !.thread_id = q.thread,
                               !.processing_time = q.wait_time]

\* sow_service.py 445-457
AttachFailureResult(q) ==
    [EmptyDict EXCEPT
        !.keys = {"status", "error", "processing_time"},
        !.status = "error",
        !.error = "Processing failed with status",
        !.detail = IF q.run.last_error THEN "last_error"
                   ELSE IF q.wait_time >= max_wait_time_sow_service
                        THEN "Processing timeout (10 minutes exceeded)"
                        ELSE "",
        !.processing_time = q.wait_time,
        !.run_status = q.run.status]

\* sow_service.py 425-467 and app.py 540-548: the loop has ended; the
\* result, or the error of a raising os.unlink, is stored and returned.
AttachRunEnded(r) ==
    /\ req[r].pc = "attach_poll"
    /\ ~AttachLoopCondition(req[r])
    /\ UNCHANGED <<aux, sow_service, startup, threads_created, env>>
    /\ IF req[r].run.status = "completed"
       THEN LET q == Called(req[r], "lists")
            IN  \/ \E log \in MessageLogs, order \in ListOrders :
                      /\ Len(log) <= env.max_log
                      /\ AttachReturn(r, [q EXCEPT !.messages = log],
                             AttachExtractResult(q, Listing(log, order)))
                \/ AttachReturn(r, q, AttachExcept("list_messages"))
       ELSE AttachReturn(r, req[r], AttachFailureResult(req[r]))

(***************************************************************************)
(* simple_sow_service.MockSOWService.process_sow_document                  *)
(***************************************************************************)
\* The canned proposal names the document: "Document Analyzed: {filename}".
MockProposal(filename) == <<77, 58>> \o filename

\* simple_sow_service.py 266-434
MockResult(q) ==
    [EmptyDict EXCEPT !.keys = SuccessKeys,
                      !.status = "success",
                      !.proposal = MockProposal(q.upload.filename),
                      !.thread_id = MockThreadId,
                      !.processing_time = mock_processing_time]

\* The mock's sleep is over: its result is stored and returned.
MockReturn(r) ==
    /\ req[r].pc = "mock_sleep"
    /\ UNCHANGED <<aux, sow_service, startup, threads_created, env>>
    /\ ReturnResult(r, req[r], MockResult(req[r]))

(***************************************************************************)
(* download_proposal (app.py 554-582)                                      *)
(***************************************************************************)
\* Thread ids a client may ask for: the mock's, the runtime's, one unknown.
DownloadIds == 0..NReq

\* DownloadResponse without the membership test: an unknown id is
\* answered like an empty proposal.
DownloadResponse_NoCheck(storage, t) ==
    IF t \notin DOMAIN storage
    THEN [asked |-> TRUE, thread_id |-> t, code |-> 200,
          body |-> << >>, name |-> DownloadName(<< >>)]
    ELSE [asked |-> TRUE, thread_id |-> t, code |-> 200,
          body |-> Utf8(storage[t].proposal),
          name |-> DownloadName(storage[t].filename)]

\* app.py 558-579: 404 for an id that is no key, else the proposal as a
\* UTF-8 attachment.
DownloadResponse(storage, t) ==
    IF t \notin DOMAIN storage
    THEN [asked |-> TRUE, thread_id |-> t, code |-> 404,
          body |-> << >>, name |-> << >>]
    ELSE [asked |-> TRUE, thread_id |-> t, code |-> 200,
          body |-> Utf8(storage[t].proposal),
          name |-> DownloadName(storage[t].filename)]

\* DownloadStorage handing the entry out with pop().
DownloadStorage_Pops(storage, t) ==
    [k \in DOMAIN storage \ {t} |-> storage[k]]

\* app.py 558-579: the handler reads proposals_storage and writes nothing.
DownloadStorage(storage, t) == storage

\* GET /api/proposal/<thread_id>/download
Download(t) ==
    /\ dlLast' = DownloadResponse(proposals_storage, t)
    /\ proposals_storage' = DownloadStorage(proposals_storage, t)
    /\ info' = NoInfo
    /\ UNCHANGED <<aux, sow_service, startup, req, threads_created, env>>

(***************************************************************************)
(* health_check and get_stats (app.py 585-611)                             *)
(***************************************************************************)
\* app.py 588-597: "mock" if isinstance(sow_service, MockSOWService)
\* else "live".
HealthResponse(service) ==
    [NoInfo EXCEPT !.kind = "health",
                   !.azure_integration =
                       IF service = "mock" THEN "mock" ELSE "live"]

\* GET /api/health
HealthCheck ==
    /\ info' = HealthResponse(sow_service)
    /\ dlLast' = NoDl
    /\ UNCHANGED <<aux, sow_service, startup, proposals_storage, req,
                   threads_created, env>>

\* app.py 603-611: len(proposals_storage) and the service type.
StatsResponse(storage, service) ==
    [NoInfo EXCEPT !.kind = "stats",
                   !.proposals_generated = Cardinality(DOMAIN storage),
                   !.service_type =
                       IF service = "mock" THEN "mock" ELSE "azure"]

\* GET /api/stats
GetStats ==
    /\ info' = StatsResponse(proposals_storage, sow_service)
    /\ dlLast' = NoDl
    /\ UNCHANGED <<aux, sow_service, startup, proposals_storage, req,
                   threads_created, env>>

(***************************************************************************)
(* The system.                                                             *)
(***************************************************************************)
Next ==
    \/ \E r \in Reqs : \E u \in Uploads : ProcessSow(r, u)
    \/ \E r \in Reqs : ThreadsCreate(r)
    \/ \E r \in Reqs : MessagesCreate(r)
    \/ \E r \in Reqs : RunsCreate(r)
    \/ \E r \in Reqs : Poll(r)
    \/ \E r \in Reqs : RunEnded(r)
    \/ \E r \in Reqs : MockReturn(r)
    \/ \E r \in Reqs : AttachCreateThread(r)
    \/ \E r \in Reqs : AttachUploadFile(r)
    \/ \E r \in Reqs : AttachCreateMessage(r)
    \/ \E r \in Reqs : AttachCreateRun(r)
    \/ \E r \in Reqs : AttachPoll(r)
    \/ \E r \in Reqs : AttachRunEnded(r)
    \/ \E t \in DownloadIds : Download(t)
    \/ HealthCheck
    \/ GetStats

Spec == Init /\ [][Next]_vars

(***************************************************************************)
(* One upload whose handler keeps running: asyncio.sleep returns and every *)
(* call to the runtime returns or raises, so a request that stands in its  *)
(* poll loop, or at the end of it, takes its next step.                    *)
(***************************************************************************)
PollInit == Init /\ env.uploads = 1

\* The next step of upload r in or after its poll loop.
LoopStep(r) == Poll(r) \/ RunEnded(r) \/ AttachPoll(r) \/ AttachRunEnded(r)

PollSpec ==
    PollInit /\ [][Next]_vars /\ \A r \in Reqs : WF_vars(LoopStep(r))

(***************************************************************************)
(* simple_sow_service.SOWProposalService._extract_text_content (45-67):    *)
(* the document text that is embedded in the instruction message.          *)
(***************************************************************************)
\* text_content[:10000]
TextCap == 10000

\* bytes.decode("utf-8", errors="ignore") on contents made of ASCII bytes
\* and of the byte 255, which no UTF-8 sequence holds and which is dropped.
IsTextByte(b) == b < 128

Decode(file_content) == SelectSeq(file_content, IsTextByte)

\* str.endswith(suffix)
EndsWith(s, suffix) ==
    /\ Len(s) >= Len(suffix)
    /\ SubSeq(s, Len(s) - Len(suffix) + 1, Len(s)) = suffix

\* re.sub(r"[^\x20-\x7E\n\r\t]", " ", text)
Printable(c) == (c >= 32 /\ c <= 126) \/ c \in {9, 10, 13}

ReplaceUnprintable(text) ==
    [i \in 1..Len(text) |-> IF Printable(text[i]) THEN text[i] ELSE SPACE]

\* \s among the characters ReplaceUnprintable leaves
IsSpaceChar(c) == c \in {SPACE, 9, 10, 13}

\* A character survives re.sub(r"\s+", " ", text) unless it is white space
\* that follows white space.
StartsRun(p) == ~IsSpaceChar(p.c) \/ p.first

\* re.sub(r"\s+", " ", text): every run of white space becomes one space.
CollapseSpace(text) ==
    LET marked == [i \in 1..Len(text) |->
                      [c |-> text[i],
                       first |-> (i = 1 \/ ~IsSpaceChar(text[i - 1]))]]
        kept == SelectSeq(marked, StartsRun)
    IN  [i \in 1..Len(kept) |->
            IF IsSpaceChar(kept[i].c) THEN SPACE ELSE kept[i].c]

\* str.strip() of a text whose white space is single spaces.
Strip(text) ==
    LET lo == IF text # << >> /\ text[1] = SPACE THEN 2 ELSE 1
        hi == IF text # << >> /\ text[Len(text)] = SPACE
              THEN Len(text) - 1 ELSE Len(text)
    IN  SubSeq(text, lo, hi)

\* simple_sow_service.py 47-62: a .txt file is decoded and returned; any
\* other file is decoded, a Word file is cleaned, and the first TextCap
\* characters are returned.
ExtractText(file_content, filename) ==
    LET name == Lower(filename)
        text == Decode(file_content)
        cleaned ==
            IF EndsWith(name, <<46, 100, 111, 99>>)
               \/ EndsWith(name, <<46, 100, 111, 99, 120>>)
            THEN Strip(CollapseSpace(ReplaceUnprintable(text)))
            ELSE text
    IN  IF EndsWith(name, <<46, 116, 120, 116>>)
        THEN text
        ELSE SubSeq(cleaned, 1,
                    IF Len(cleaned) < TextCap THEN Len(cleaned) ELSE TextCap)

FN_C_DOC  == <<99, 46, 100, 111, 99>>           \* "c.doc"
FN_D_DOCX == <<68, 46, 68, 79, 67, 88>>         \* "D.DOCX"

\* Filenames that pass the validation of process_sow.
AcceptedFilenames == {FN_A_TXT, FN_B_PDF, FN_C_DOC, FN_D_DOCX}

\* File contents: short ones with white space, control and invalid bytes,
\* and long ones of TextCap characters and more.
FileContents ==
    { <<97, 9, 10, 98>>,
      <<32, 255, 97, 0, 32, 32>>,
      [i \in 1..TextCap |-> 65],
      [i \in 1..(TextCap + 1) |-> 65],
      [i \in 1..(TextCap + TextCap) |-> IF i % 3 = 0 THEN 65 ELSE SPACE] }

\* document_text = await self._extract_text_content(file_content, filename)
ExtractTextContent(file_content, filename) ==
    /\ applied = NoApplied
    /\ script = ScriptStart
    /\ creator = CreatorStart
    /\ applied' = [kind |-> "extract", filename |-> filename,
                   file_content |-> file_content,
                   document_text |-> ExtractText(file_content, filename)]
    /\ UNCHANGED <<portal, script, creator>>

(***************************************************************************)
(* The two services as functions of what the runtime answers: the run that *)
(* runs.create returns, the runs that the status queries return one after  *)
(* the other (the last one for every further query), and the listing.      *)
(***************************************************************************)
\* Longest sequence of answers to status queries that is drawn.
MaxPolled == 1

\* A run that is in progress for the first max_wait_time of queries and
\* completed at the next one.
SlowRun ==
    [i \in 1..((max_wait_time \div poll_interval) + 1) |->
        [status |-> IF i <= max_wait_time \div poll_interval
                    THEN "in_progress" ELSE "completed",
         last_error |-> FALSE]]

\* The answers to the status queries: a run only moves forward.
PolledRuns(created) ==
    (IF Rank(created.status) <= 1 THEN {SlowRun} ELSE {}) \cup
    UNION {{p \in [1..n -> RunObjects] :
               \A i \in 1..n :
                   Rank(p[i].status) >=
                       Rank(IF i = 1 THEN created.status ELSE p[i - 1].status)} :
           n \in 0..MaxPolled}

\* simple_sow_service.py 153-171, sow_service.py 383-404: the locals of a
\* request for which the thread, the file (sow_service only), the message
\* and the run are created.
AfterCreate(created, thread, files) ==
    [IdleReq EXCEPT !.thread = thread, !.run = created,
                    !.calls = [NoCalls EXCEPT !.threads = 1, !.files = files,
                                              !.messages = 1, !.runs = 1]]

\* simple_sow_service.py 182-186, sow_service.py 413-417: one pass of a
\* poll loop: sleep, add the interval, query the run; the runtime answers
\* with the next of the drawn runs (the last status again when they are
\* used up).
PollOnce(q, rest) ==
    [Called(q, "gets") EXCEPT
        !.wait_time = @ + poll_interval,
        !.run = IF rest = << >> THEN @ ELSE Head(rest)]

\* simple_sow_service.py 194-251: the result after the loop.
SimpleOutcome(q, listing, rewinds) ==
    IF RunCompleted(q)
    THEN ExtractResult(Called(q, "lists"), listing, rewinds)
    ELSE FailureResult(q)

\* sow_service.py 425-457: the result after the loop.
AttachOutcome(q, listing) ==
    IF q.run.status = "completed"
    THEN AttachExtractResult(Called(q, "lists"), listing)
    ELSE AttachFailureResult(q)

\* Both services are given the same answers of one runtime, one after the
\* other. simple_sow_service.py 153-171: the first one creates its thread,
\* message and run and reaches its poll loop.
ApplyBoth(created, polled, log, order, rewinds) ==
    /\ applied = NoApplied
    /\ script = ScriptStart
    /\ creator = CreatorStart
    /\ threads_created' = threads_created + 1
    /\ applied' =
          [kind |-> "simple", created |-> created, polled |-> polled,
           log |-> log, order |-> order, rewinds |-> rewinds,
           q |-> AfterCreate(created, threads_created + 1, 0),
           rest |-> polled, simple |-> EmptyDict, attach |-> EmptyDict]
    /\ UNCHANGED <<sow_service, proposals_storage, req, dlLast, env, startup,
                   info, script, creator>>

\* simple_sow_service.py 178-186, sow_service.py 409-417: the service that
\* is running makes one pass of its poll loop, between two returns to the
\* event loop.
ApplyPoll ==
    /\ \/ applied.kind = "simple" /\ LoopCondition(applied.q)
       \/ applied.kind = "attach" /\ AttachLoopCondition(applied.q)
    /\ applied' =
          [applied EXCEPT
              !.q = PollOnce(applied.q, applied.rest),
              !.rest = IF @ = << >> THEN << >> ELSE Tail(@)]
    /\ UNCHANGED <<portal, script, creator>>

\* simple_sow_service.py 194-251, then sow_service.py 383-404: the loop of
\* the first service has ended and its result is returned; the second
\* service creates its thread, file, message and run on the same runtime
\* and reaches its poll loop.
ApplySimpleEnded ==
    /\ applied.kind = "simple"
    /\ ~LoopCondition(applied.q)
    /\ threads_created' = threads_created + 1
    /\ applied' =
          [applied EXCEPT
              !.kind = "attach",
              !.simple = SimpleOutcome(applied.q,
                                       Listing(applied.log, applied.order),
                                       applied.rewinds),
              !.q = AfterCreate(applied.created, threads_created + 1, 1),
              !.rest = applied.polled]
    /\ UNCHANGED <<sow_service, proposals_storage, req, dlLast, env, startup,
                   info, script, creator>>

\* sow_service.py 425-467: the loop of the second service has ended and its
\* result is returned, or the error of a raising os.unlink.
ApplyAttachEnded ==
    /\ applied.kind = "attach"
    /\ ~AttachLoopCondition(applied.q)
    /\ \E result \in {AttachOutcome(applied.q,
                                     Listing(applied.log, applied.order)),
                       AttachExcept("os.unlink")} :
          applied' = [applied EXCEPT !.kind = "outcomes", !.attach = result]
    /\ UNCHANGED <<portal, script, creator>>

(***************************************************************************)
(* update_agent-o3.py: update_orchestrator_agent                           *)
(***************************************************************************)
\* The function is left: returned is "agent", "None", or "raised".
ScriptReturn(returned, agents) ==
    [pc |-> "returned", agents |-> agents, returned |-> returned]

\* update_agent-o3.py 19-22: AIProjectClient(...) is built outside the try
\* block: if it raises the function raises.
ScriptClient ==
    /\ script.pc = "client"
    /\ applied = NoApplied
    /\ \/ script' = [script EXCEPT !.pc = "get"]
       \/ script' = ScriptReturn("raised", script.agents)
    /\ creator = CreatorStart
    /\ UNCHANGED <<portal, applied, creator>>

\* update_agent-o3.py 30, 99-101: agents.get(agent_id=...) returns the
\* agent or raises (always when there is no such agent).
ScriptGet ==
    /\ script.pc = "get"
    /\ applied = NoApplied
    /\ \/ /\ OldAgent \in script.agents
          /\ script' = [script EXCEPT !.pc = "delete"]
       \/ script' = ScriptReturn("None", script.agents)
    /\ creator = CreatorStart
    /\ UNCHANGED <<portal, applied, creator>>

\* update_agent-o3.py 35, 99-101: agents.delete(agent_id=...) removes the
\* old agent, or raises, with the agent removed or not.
ScriptDelete ==
    /\ script.pc = "delete"
    /\ applied = NoApplied
    /\ \/ script' = [script EXCEPT !.pc = "create",
                                    !.agents = @ \ {OldAgent}]
       \/ script' = ScriptReturn("None", script.agents)
       \/ script' = ScriptReturn("None", script.agents \ {OldAgent})
    /\ creator = CreatorStart
    /\ UNCHANGED <<portal, applied, creator>>

\* update_agent-o3.py 40-101: agents.create(...) adds the new agent, which
\* is returned after the prints of lines 88-95; or it raises, with the
\* agent added or not; or a print raises (line 92 reads tool.type of every
\* tool of the agent) after the agent was added.
ScriptCreate ==
    /\ script.pc = "create"
    /\ applied = NoApplied
    /\ \/ script' = ScriptReturn("agent", script.agents \cup {NewAgent})
       \/ script' = ScriptReturn("None", script.agents)
       \/ script' = ScriptReturn("None", script.agents \cup {NewAgent})
    /\ creator = CreatorStart
    /\ UNCHANGED <<portal, applied, creator>>

(***************************************************************************)
(* create_agents.py: main, AgentCreator                                    *)
(***************************************************************************)
\* main() is left: outcome is "missing" (the return of line 708), "raised"
\* (AgentCreator() raises, outside the try block), "failed" (the except
\* clause of 740-742) or "success".
CreatorReturn(c, outcome) == [c EXCEPT !.pc = "returned", !.outcome = outcome]

\* create_agents.py 696-718, 28-38: main() checks the two environment
\* variables and returns when one is missing or empty; it then builds the
\* AgentCreator, whose constructor may raise.
main ==
    /\ creator.pc = "main"
    /\ applied = NoApplied
    /\ script = ScriptStart
    /\ \E PROJECT_ENDPOINT \in EnvValues, MODEL_DEPLOYMENT_NAME \in EnvValues :
          IF ~Truthy(PROJECT_ENDPOINT) \/ ~Truthy(MODEL_DEPLOYMENT_NAME)
          THEN creator' = CreatorReturn(creator, "missing")
          ELSE \/ creator' = [creator EXCEPT !.pc = "create"]
               \/ creator' = CreatorReturn(creator, "raised")
    /\ UNCHANGED <<portal, applied, script>>

\* create_agents.py 44-84: one step of create_all_agents: the create_*
\* method of the next agent calls agents.create_agent, and the agent is
\* put in self.agents; when the call raises (with the agent added at the
\* runtime or not) the except clause re-raises and main() reports the
\* failure. The agents created before stay at the runtime.
CreateStep(type) ==
    /\ creator.pc = "create"
    /\ Len(creator.agents) < Len(AgentTypes)
    /\ AgentTypes[Len(creator.agents) + 1] = type
    /\ \/ creator' =
             [creator EXCEPT
                 !.agents = Append(@, type),
                 !.runtime = @ + 1,
                 !.pc = IF Len(creator.agents) + 1 = Len(AgentTypes)
                        THEN "save" ELSE "create"]
       \/ creator' = CreatorReturn(creator, "failed")
       \/ creator' =
             CreatorReturn([creator EXCEPT !.runtime = @ + 1], "failed")
    /\ UNCHANGED <<portal, applied, script>>

\* create_agents.py 86-183
create_document_parser_agent == CreateStep("parser")

\* create_agents.py 185-320
create_sow_analysis_agent == CreateStep("analyzer")

\* create_agents.py 322-430
create_deep_research_agent == CreateStep("researcher")

\* create_agents.py 432-537
create_proposal_generator_agent == CreateStep("generator")

\* create_agents.py 539-664
create_orchestrator_agent == CreateStep("orchestrator")

\* create_agents.py 666-677, 73-84: agent_ids.env is written and
\* create_all_agents returns self.agents; when the writing raises, the
\* failure is reported and all five agents stay at the runtime.
save_agent_ids ==
    /\ creator.pc = "save"
    /\ \/ creator' = [creator EXCEPT !.saved = TRUE, !.pc = "test"]
       \/ creator' = CreatorReturn(creator, "failed")
    /\ UNCHANGED <<portal, applied, script>>

\* create_agents.py 679-693: for the next agent of self.agents a thread is
\* created at the runtime and deleted again; a call that raises is
\* reported and the loop goes on. A thread whose deletion raises, or
\* whose creation raises after the runtime made it, may stay.
test_agents ==
    /\ creator.pc = "test"
    /\ creator.tested < Len(creator.agents)
    /\ \/ /\ threads_created' = threads_created + 1
          /\ \/ creator' = [creator EXCEPT !.tested = @ + 1]
             \/ creator' = [creator EXCEPT !.tested = @ + 1,
                                           !.threads = @ + 1]
       \/ /\ UNCHANGED threads_created
          /\ creator' = [creator EXCEPT !.tested = @ + 1]
    /\ UNCHANGED <<sow_service, proposals_storage, req, dlLast, env, startup,
                   info, applied, script>>

\* create_agents.py 724-738: every agent has been tested; main() prints
\* the ids and ends.
CreatorDone ==
    /\ creator.pc = "test"
    /\ creator.tested = Len(creator.agents)
    /\ creator' = CreatorReturn(creator, "success")
    /\ UNCHANGED <<portal, applied, script>>

(***************************************************************************)
(* The programs beside the portal: in one behaviour either a function of   *)
(* the services is applied to one input, or the update script, or the      *)
(* creation script, is run against the runtime.                            *)
(***************************************************************************)
AuxInit ==
    /\ Init
    /\ BothSet(startup)
    /\ ~startup.constructor_raises
    /\ sow_service = "live"
    /\ env.uploads = 1

AuxNext ==
    \/ /\ applied = NoApplied
       /\ \E c \in FileContents, f \in AcceptedFilenames :
             ExtractTextContent(c, f)
    \/ /\ applied = NoApplied
       /\ \E created \in RunObjects, log \in MessageLogs,
             order \in ListOrders, rewinds \in BOOLEAN :
             \E polled \in PolledRuns(created) :
                 ApplyBoth(created, polled, log, order, rewinds)
    \/ ApplyPoll
    \/ ApplySimpleEnded
    \/ ApplyAttachEnded
    \/ ScriptClient
    \/ ScriptGet
    \/ ScriptDelete
    \/ ScriptCreate
    \/ main
    \/ create_document_parser_agent
    \/ create_sow_analysis_agent
    \/ create_deep_research_agent
    \/ create_proposal_generator_agent
    \/ create_orchestrator_agent
    \/ save_agent_ids
    \/ test_agents
    \/ CreatorDone

AuxSpec == AuxInit /\ [][AuxNext]_vars

(***************************************************************************)
(* Vocabulary of the properties.                                           *)
(***************************************************************************)
Done(r) == req[r].pc = "done"

Body(r) == req[r].response.body

\* The id under which the job of upload r is known to the client: the
\* thread_id of the result when it has one, the thread created otherwise.
JobId(r) ==
    IF "thread_id" \in Body(r).keys THEN Body(r).thread_id ELSE req[r].thread

\* Calls made to the runtime for upload r, all kinds together.
RemoteCalls(q) ==
    q.calls.threads + q.calls.files + q.calls.messages + q.calls.runs
        + q.calls.gets + q.calls.lists

\* The step just taken ended the handling of upload r.
Ends(r) == req[r].pc # "done" /\ req'[r].pc = "done"

\* The step just taken is a download (uploads clear dlLast or move req).
DownloadStep == dlLast'.asked /\ req' = req

\* The extension as the claims word it: the text from the last dot of the
\* filename on, in lower case ("" without a dot).
LastExtension(f) ==
    IF RFind(f, DOT) = 0 THEN << >> ELSE Lower(SubSeq(f, RFind(f, DOT), Len(f)))

\* The uploads the validation claims speak of.
InvalidUpload(u) ==
    \/ ~u.has_file
    \/ u.filename = << >>
    \/ LastExtension(u.filename) \notin allowed_extensions
    \/ u.nbytes = 0

\* The service's outcome for upload r is an error: the service was
\* entered (its first remote call attempted) and its result has status
\* error.
ServiceError(r) ==
    /\ Done(r)
    /\ RemoteCalls(req[r]) > 0
    /\ Body(r).status = "error"

\* The request of upload u is within the configured size limit.
WithinLimit(u) == ContentLength(u) <= MAX_CONTENT_LENGTH

\* The ceiling of the poll loop of the service in use.
MaxWait ==
    IF sow_service = "attach" THEN max_wait_time_sow_service ELSE max_wait_time

\* Upload r is in, or has left, a poll loop.
Polled(q) == q.run.status # "none"

\* simple_sow_service.py 242, sow_service.py 451: the timeout suffixes.
TimeoutTexts ==
    {"Processing timeout (5 minutes exceeded)",
     "Processing timeout (10 minutes exceeded)"}

\* The indices of the messages of a log whose role is assistant.
AssistantOf(log) == {i \in 1..Len(log) : log[i].role = "assistant"}

\* The statuses at which a run has ended.
TerminalStatuses == {"completed"} \cup FailStatuses

(***************************************************************************)
(* C1. When process_sow returns for an upload: a response with status      *)
(* success leaves proposals_storage holding, under the response's          *)
(* thread_id, the proposal text of that response; a response with status   *)
(* error has written no entry.                                             *)
(***************************************************************************)
C1_SuccessCachedElseNothing ==
    [][\A r \in Reqs :
          Ends(r) =>
             LET b == req'[r].response.body
             IN  /\ b.status = "success" =>
                       /\ b.thread_id \in DOMAIN proposals_storage'
                       /\ proposals_storage'[b.thread_id].proposal = b.proposal
                 /\ b.status = "error" =>
                       proposals_storage' = proposals_storage]_vars

\* One upload answered success with its entry in place, another answered
\* with a service error.
C1_Witness ==
    \E r, k \in Reqs :
        /\ Done(r) /\ Body(r).status = "success"
        /\ Body(r).thread_id \in DOMAIN proposals_storage
        /\ ServiceError(k)

(***************************************************************************)
(* C2. An upload with no file part, an empty filename, a filename whose    *)
(* last extension (case-insensitive) is not allowed, or a zero-byte body   *)
(* is answered with an error payload and HTTP 400, with no call to the     *)
(* runtime and proposals_storage unchanged.                                *)
(***************************************************************************)
C2_InvalidUploadRejected400 ==
    [][\A r \in Reqs :
          (req[r].pc = "idle" /\ req'[r].pc # "idle"
              /\ InvalidUpload(req'[r].upload)) =>
             /\ req'[r].pc = "done"
             /\ req'[r].response.code = 400
             /\ req'[r].response.body.status = "error"
             /\ RemoteCalls(req'[r]) = 0
             /\ threads_created' = threads_created
             /\ proposals_storage' = proposals_storage]_vars

\* The same for the uploads whose request is within MAX_CONTENT_LENGTH,
\* where it holds.
C2_WithinLimitRejected400 ==
    [][\A r \in Reqs :
          (req[r].pc = "idle" /\ req'[r].pc # "idle"
              /\ InvalidUpload(req'[r].upload)
              /\ WithinLimit(req'[r].upload)) =>
             /\ req'[r].pc = "done"
             /\ req'[r].response.code = 400
             /\ req'[r].response.body.status = "error"
             /\ RemoteCalls(req'[r]) = 0
             /\ threads_created' = threads_created
             /\ proposals_storage' = proposals_storage]_vars

(***************************************************************************)
(* C3. Validation failures are answered 400 and processing failures 500:   *)
(* whenever the service's outcome is an error the HTTP status is 500.      *)
(***************************************************************************)
C3_ProcessingFailure500 ==
    \A r \in Reqs :
        /\ (Done(r) /\ InvalidUpload(req[r].upload)
                /\ WithinLimit(req[r].upload)) => req[r].response.code = 400
        /\ ServiceError(r) => req[r].response.code = 500

(***************************************************************************)
(* C4. An entry of proposals_storage exists for a job if and only if the   *)
(* job's run reached completed.                                            *)
(***************************************************************************)
C4_EntryIffCompleted ==
    \A r \in Reqs :
        Done(r) =>
            (JobId(r) \in DOMAIN proposals_storage
                <=> req[r].run.status = "completed")

\* The listing of upload r returned and every assistant message of the log
\* has a text, so that the extraction succeeds whichever way the log is
\* listed.
ExtractionSucceeds(r) ==
    /\ Body(r).detail # "messages.list"
    /\ AssistantOf(req[r].messages) # {}
    /\ \A i \in AssistantOf(req[r].messages) :
          req[r].messages[i].content # << >>

\* The listing of upload r raised, or the log has no assistant message
\* with a text, so that the extraction fails whichever way the log is
\* listed.
ExtractionFails(r) ==
    \/ Body(r).detail = "messages.list"
    \/ \A i \in AssistantOf(req[r].messages) :
          req[r].messages[i].content = << >>

\* C4 as amended. With the live service of simple_sow_service: an entry
\* exists for a job only if its run reached completed; a job whose run
\* reached completed is answered success and has an entry holding the
\* proposal returned, the text of an assistant message of its log, unless
\* the extraction fails (the listing raises, or the message the
\* extraction selects is missing or has no text), and then an error is
\* returned and no entry exists.
C4_EntryOnlyIfCompletedAndExtracted ==
    \A r \in Reqs :
        (Done(r) /\ sow_service = "live") =>
            /\ JobId(r) \in DOMAIN proposals_storage
                  => req[r].run.status = "completed"
            /\ req[r].run.status = "completed" =>
                  /\ req[r].calls.lists = 1
                  /\ ExtractionSucceeds(r) => Body(r).status = "success"
                  /\ ExtractionFails(r) => Body(r).status = "error"
                  /\ Body(r).status = "success" =>
                        /\ JobId(r) = req[r].thread
                        /\ JobId(r) \in DOMAIN proposals_storage
                        /\ proposals_storage[JobId(r)].proposal
                              = Body(r).proposal
                        /\ \E i \in AssistantOf(req[r].messages) :
                              /\ req[r].messages[i].content # << >>
                              /\ Body(r).proposal
                                    = req[r].messages[i].content[1]
                  /\ Body(r).status # "success" =>
                        /\ Body(r).status = "error"
                        /\ ~ExtractionSucceeds(r)
                        /\ Body(r).error \in
                              {"No assistant response found in thread",
                               "Orchestrator processing failed"}
                        /\ JobId(r) \notin DOMAIN proposals_storage

\* Two jobs of the live service with completed runs: one stored, one whose
\* extraction failed.
C4_Witness ==
    \E r, k \in Reqs :
        /\ sow_service = "live"
        /\ Done(r) /\ req[r].run.status = "completed"
        /\ ExtractionSucceeds(r)
        /\ JobId(r) \in DOMAIN proposals_storage
        /\ Done(k) /\ req[k].run.status = "completed"
        /\ ExtractionFails(k)
        /\ Body(k).error = "No assistant response found in thread"
        /\ JobId(k) \notin DOMAIN proposals_storage

(***************************************************************************)
(* C5. If the run's status never becomes terminal, the poll loop stops and *)
(* the request reports a timeout error when the elapsed time is at or      *)
(* immediately after max_wait: a status query is issued only below         *)
(* max_wait, the elapsed time at which polling stops is at least max_wait  *)
(* and exceeds it by at most one poll interval, and the request is         *)
(* answered with the timeout error and nothing is stored.                  *)
(***************************************************************************)
C5_TimeoutAtMaxWait ==
    [][\A r \in Reqs :
          /\ req'[r].calls.gets > req[r].calls.gets =>
                /\ req[r].wait_time < MaxWait
                /\ req'[r].calls.gets = req[r].calls.gets + 1
          /\ (Ends(r) /\ Polled(req[r])
                /\ req'[r].calls.gets = req[r].calls.gets
                /\ req[r].run.status \in LoopStatuses) =>
                /\ req'[r].wait_time >= MaxWait
                /\ req'[r].wait_time <= MaxWait + poll_interval
                /\ req'[r].response.body.status = "error"
                /\ req'[r].response.body.detail \in TimeoutTexts
                /\ JobId(r)' \notin DOMAIN proposals_storage']_vars

\* What does hold, for both services: a status query is issued only while
\* the elapsed time is below max_wait, and the elapsed time never exceeds
\* max_wait.
C5_NoQueryAtOrAfterMaxWait ==
    [][\A r \in Reqs :
          /\ req'[r].calls.gets > req[r].calls.gets =>
                /\ req[r].wait_time < MaxWait
                /\ req'[r].calls.gets = req[r].calls.gets + 1
          /\ req'[r].wait_time <= MaxWait]_vars

(***************************************************************************)
(* C6. After a successful completion the job's id holds exactly that       *)
(* response's proposal, and any later download of the id, after any        *)
(* further uploads and downloads, returns that text.                       *)
(***************************************************************************)
C6_DownloadReturnsResponseText ==
    \A r \in Reqs :
        (Done(r) /\ Body(r).status = "success") =>
            /\ JobId(r) \in DOMAIN proposals_storage
            /\ proposals_storage[JobId(r)].proposal = Body(r).proposal
            /\ (dlLast.asked /\ dlLast.thread_id = JobId(r)) =>
                  /\ dlLast.code = 200
                  /\ dlLast.body = Utf8(Body(r).proposal)

\* The same with a live service, where the runtime gives every job its own
\* thread id: it holds.
C6_LiveDownloadReturnsResponseText ==
    sow_service # "mock" => C6_DownloadReturnsResponseText

(***************************************************************************)
(* C7. Concurrent uploads, interleaved in any order, each get a job id of  *)
(* their own and each leave an entry of their own in proposals_storage,    *)
(* holding that upload's proposal and filename, whichever service is in    *)
(* use.                                                                    *)
(***************************************************************************)
C7_DistinctJobsDistinctEntries ==
    \A r, k \in Reqs :
        (Done(r) /\ Body(r).status = "success"
            /\ Done(k) /\ Body(k).status = "success" /\ r # k) =>
            /\ JobId(r) # JobId(k)
            /\ JobId(r) \in DOMAIN proposals_storage
            /\ proposals_storage[JobId(r)] =
                  [proposal |-> Body(r).proposal,
                   filename |-> req[r].upload.filename]

\* The same with a live service: it holds.
C7_LiveDistinctJobsDistinctEntries ==
    sow_service # "mock" => C7_DistinctJobsDistinctEntries

(***************************************************************************)
(* C8. A download never modifies proposals_storage, and a download that    *)
(* repeats the previous download of a stored id, no upload having ended    *)
(* in between, returns the same bytes under the same name.                 *)
(***************************************************************************)
C8_DownloadIdempotent ==
    [][DownloadStep =>
          /\ proposals_storage' = proposals_storage
          /\ (dlLast.asked /\ dlLast.code = 200
                /\ dlLast'.thread_id = dlLast.thread_id) =>
                dlLast' = dlLast]_vars

\* A stored proposal with text has been downloaded.
C8_Witness ==
    /\ dlLast.asked
    /\ dlLast.code = 200
    /\ dlLast.thread_id \in DOMAIN proposals_storage
    /\ dlLast.body # << >>

(***************************************************************************)
(* C9. A download of an id that is no key of proposals_storage is answered *)
(* 404 without content and leaves proposals_storage unchanged; a download  *)
(* of an id that is a key is never answered 404.                           *)
(***************************************************************************)
C9_UnknownId404 ==
    [][DownloadStep =>
          IF dlLast'.thread_id \in DOMAIN proposals_storage
          THEN dlLast'.code # 404
          ELSE /\ dlLast'.code = 404
               /\ dlLast'.body = << >>
               /\ dlLast'.name = << >>
               /\ proposals_storage' = proposals_storage]_vars

\* With at least one proposal stored, a download of another id was
\* answered 404.
C9_Witness ==
    /\ dlLast.asked
    /\ dlLast.code = 404
    /\ dlLast.thread_id \notin DOMAIN proposals_storage
    /\ proposals_storage # << >>

(***************************************************************************)
(* C10. Whatever remote call raises and whichever step fails, process_sow  *)
(* answers with a payload whose status is success or error, and an error   *)
(* payload carries an error string.                                        *)
(***************************************************************************)
C10_AlwaysStructuredPayload ==
    \A r \in Reqs :
        /\ req[r].pc \in
              {"idle", "done", "mock_sleep", "threads_create",
               "messages_create", "runs_create", "poll", "create_thread",
               "upload_file", "create_message", "create_run", "attach_poll"}
        /\ Done(r) =>
              /\ "status" \in Body(r).keys
              /\ Body(r).status \in {"success", "error"}
              /\ req[r].response.code \in {200, 400, 500}
              /\ Body(r).status = "error" =>
                    /\ "error" \in Body(r).keys
                    /\ Body(r).error # ""
              /\ Body(r).status = "success" =>
                    /\ "proposal" \in Body(r).keys
                    /\ req[r].response.code = 200

\* A status query raised in the poll loop and the upload was answered with
\* an error payload.
C10_Witness ==
    \E r \in Reqs :
        /\ Done(r)
        /\ Body(r).detail = "runs.get"
        /\ Body(r).status = "error"
        /\ req[r].calls.gets > 0

(***************************************************************************)
(* C11. The value proposals_generated reported by GET /api/stats equals    *)
(* the number of process_sow calls that have returned status success,      *)
(* after any sequence of uploads and with whichever service.               *)
(***************************************************************************)
\* The uploads answered with status success so far.
Successes == {r \in Reqs : Done(r) /\ Body(r).status = "success"}

C11_StatsCountsSuccesses ==
    info.kind = "stats" => info.proposals_generated = Cardinality(Successes)

\* The same with a live service, where every job has a thread id of its
\* own: it holds.
C11_LiveStatsCountsSuccesses ==
    sow_service # "mock" => C11_StatsCountsSuccesses

(***************************************************************************)
(* C12. An upload whose request exceeds MAX_CONTENT_LENGTH is a validation *)
(* failure: it is answered at once with an error payload and HTTP 400, no  *)
(* call to the runtime is made and nothing is stored.                      *)
(***************************************************************************)
C12_OversizeRejected400 ==
    [][\A r \in Reqs :
          (req[r].pc = "idle" /\ req'[r].pc # "idle"
              /\ ~WithinLimit(req'[r].upload)) =>
             /\ req'[r].pc = "done"
             /\ req'[r].response.code = 400
             /\ req'[r].response.body.status = "error"
             /\ RemoteCalls(req'[r]) = 0
             /\ threads_created' = threads_created
             /\ proposals_storage' = proposals_storage]_vars

\* What does hold for such an upload: it is answered at once with an error
\* payload and HTTP 500, without any call to the runtime.
C12_OversizeAnswered500 ==
    [][\A r \in Reqs :
          (req[r].pc = "idle" /\ req'[r].pc # "idle"
              /\ ~WithinLimit(req'[r].upload)) =>
             /\ req'[r].pc = "done"
             /\ req'[r].response.code = 500
             /\ req'[r].response.body.status = "error"
             /\ RemoteCalls(req'[r]) = 0
             /\ threads_created' = threads_created
             /\ proposals_storage' = proposals_storage]_vars

(***************************************************************************)
(* C13. The process uses the live service exactly when PROJECT_ENDPOINT    *)
(* and ORCHESTRATOR_AGENT_ID are both set (to a non-empty value) and the   *)
(* construction of the service succeeds; otherwise it uses the mock stub,  *)
(* which makes no remote call, waits its fixed delay and answers every     *)
(* upload it is given with a success payload; /api/health reports mock or  *)
(* live accordingly.                                                       *)
(***************************************************************************)
\* Both variables hold a value and the constructor did not raise.
Configured ==
    /\ startup.PROJECT_ENDPOINT \notin {"None", ""}
    /\ startup.ORCHESTRATOR_AGENT_ID \notin {"None", ""}
    /\ ~startup.constructor_raises

C13_LiveIffConfiguredElseMock ==
    /\ sow_service \in {"live", "attach"} <=> Configured
    /\ sow_service = "mock" <=> ~Configured
    /\ ~Configured =>
          /\ threads_created = 0
          /\ \A r \in Reqs :
                /\ req[r].pc \in {"idle", "mock_sleep", "done"}
                /\ RemoteCalls(req[r]) = 0
                /\ (Done(r) /\ req[r].response.code \notin {400, 500}) =>
                      /\ Body(r).status = "success"
                      /\ Body(r).processing_time = mock_processing_time
                      /\ req[r].response.code = 200
    /\ info.kind = "health" =>
          info.azure_integration = IF Configured THEN "live" ELSE "mock"

\* Both variables are set but the constructor raised: an upload was served
\* by the stub and /api/health then reported mock.
C13_Witness ==
    /\ startup.PROJECT_ENDPOINT = "set"
    /\ startup.ORCHESTRATOR_AGENT_ID = "set"
    /\ startup.constructor_raises
    /\ \E r \in Reqs : Done(r) /\ Body(r).status = "success"
    /\ info.kind = "health"
    /\ info.azure_integration = "mock"

(***************************************************************************)
(* C14. A valid .txt upload whose run is already completed when it is      *)
(* created, and whose message log holds one assistant message, issues no   *)
(* status query, reports processing_time 0 and is answered success with    *)
(* the proposal equal to that message's text.                              *)
(***************************************************************************)
\* The indices of the assistant messages of a log.
AssistantIndices(log) == {i \in 1..Len(log) : log[i].role = "assistant"}

\* The log holds exactly one assistant message, and it has a text.
OneAssistantMessage(log) ==
    /\ Cardinality(AssistantIndices(log)) = 1
    /\ \A i \in AssistantIndices(log) : log[i].content # << >>

IsTxt(u) == SplitExt(Lower(u.filename)) = <<46, 116, 120, 116>>

C14_CompletedAtCreationNoPoll ==
    [][\A r \in Reqs :
          (/\ req[r].pc = "poll"
           /\ IsTxt(req[r].upload)
           /\ req[r].calls.gets = 0
           /\ req[r].run.status = "completed"
           /\ req'[r] # req[r]) =>
             /\ req'[r].pc = "done"
             /\ req'[r].calls.gets = 0
             /\ req'[r].calls.lists = 1
             /\ OneAssistantMessage(req'[r].messages) =>
                   LET b == req'[r].response.body
                   IN  /\ b.status = "success"
                       /\ req'[r].response.code = 200
                       /\ b.processing_time = 0
                       /\ \A i \in AssistantIndices(req'[r].messages) :
                             b.proposal = req'[r].messages[i].content[1]]_vars

\* a.txt was answered success without a status query, out of a log of the
\* user's message and one assistant message.
C14_Witness ==
    \E r \in Reqs :
        /\ sow_service = "live"
        /\ Done(r)
        /\ req[r].upload.filename = FN_A_TXT
        /\ req[r].run.status = "completed"
        /\ req[r].calls.gets = 0
        /\ Len(req[r].messages) = 2
        /\ OneAssistantMessage(req[r].messages)
        /\ Body(r).status = "success"
        /\ Body(r).processing_time = 0
        /\ Body(r).proposal = TEXT_E

(***************************************************************************)
(* C15. Within one job the remote operations occur in strict order: the    *)
(* thread, the message and the run are created, each after the one before  *)
(* has returned, before the first status query; every status query comes   *)
(* before the listing of the messages; the listing comes before the write  *)
(* to proposals_storage. No step of a phase happens before the previous    *)
(* phase has finished.                                                     *)
(***************************************************************************)
C15_PhasesInOrder ==
    [][\A r \in Reqs :
          LET c == req[r].calls
              d == req'[r].calls
          IN  /\ d.threads > c.threads => RemoteCalls(req[r]) = 0
              /\ d.files > c.files =>
                    /\ c.threads = 1 /\ req[r].thread # NoThread
                    /\ c.files = 0 /\ c.messages = 0 /\ c.runs = 0
                    /\ c.gets = 0 /\ c.lists = 0
              /\ d.messages > c.messages =>
                    /\ c.threads = 1 /\ req[r].thread # NoThread
                    /\ c.messages = 0 /\ c.runs = 0
                    /\ c.gets = 0 /\ c.lists = 0
              /\ d.runs > c.runs =>
                    /\ c.threads = 1 /\ c.messages = 1
                    /\ c.runs = 0 /\ c.gets = 0 /\ c.lists = 0
              /\ d.gets > c.gets =>
                    /\ c.threads = 1 /\ c.messages = 1 /\ c.runs = 1
                    /\ req[r].run.status # "none"
                    /\ c.lists = 0
              /\ d.lists > c.lists =>
                    /\ c.threads = 1 /\ c.messages = 1 /\ c.runs = 1
                    /\ req[r].run.status = "completed"
                    /\ c.lists = 0
                    /\ d.gets = c.gets
              /\ (sow_service # "mock" /\ Ends(r)
                    /\ proposals_storage' # proposals_storage) =>
                    /\ d.lists = 1
                    /\ req'[r].messages # << >>
                    /\ DOMAIN proposals_storage' =
                          DOMAIN proposals_storage \cup {req[r].thread}
              /\ req[r].pc = "done" => req'[r] = req[r]]_vars

\* A job went through all four phases: created, queried twice, listed,
\* stored.
C15_Witness ==
    \E r \in Reqs :
        /\ sow_service = "live"
        /\ Done(r)
        /\ req[r].calls =
              [threads |-> 1, files |-> 0, messages |-> 1, runs |-> 1,
               gets |-> 2, lists |-> 1]
        /\ req[r].thread \in DOMAIN proposals_storage

(***************************************************************************)
(* C16. In every poll loop another status query is issued exactly when the *)
(* last observed status of the run is queued, in_progress or               *)
(* requires_action and the elapsed time is below max_wait: a run seen in   *)
(* requires_action keeps being queried.                                    *)
(***************************************************************************)
\* Upload r, standing in its poll loop with record q, moves to record p:
\* it queries the run exactly when the claim says so.
QueriesExactlyWhenNonTerminal(q, p) ==
    (p.calls.gets = q.calls.gets + 1)
        <=> (q.run.status \in LoopStatuses /\ q.wait_time < MaxWait)

C16_PollWhileNonTerminal ==
    [][\A r \in Reqs :
          (req[r].pc \in {"poll", "attach_poll"} /\ req'[r] # req[r]) =>
             QueriesExactlyWhenNonTerminal(req[r], req'[r])]_vars

\* The same for the loop of simple_sow_service alone: it holds.
C16_SimplePollWhileNonTerminal ==
    [][\A r \in Reqs :
          (req[r].pc = "poll" /\ req'[r] # req[r]) =>
             QueriesExactlyWhenNonTerminal(req[r], req'[r])]_vars

(***************************************************************************)
(* C17. The proposal returned is the text of the most recent assistant     *)
(* message of the job's message log: with several assistant messages in    *)
(* the log the newest one is the proposal.                                 *)
(***************************************************************************)
\* The index of the newest assistant message of a log kept oldest first.
NewestAssistant(log) ==
    CHOOSE i \in AssistantIndices(log) : \A j \in AssistantIndices(log) : j <= i

C17_NewestAssistantIsProposal ==
    \A r \in Reqs :
        (Done(r) /\ sow_service # "mock" /\ Body(r).status = "success") =>
            LET newest == req[r].messages[NewestAssistant(req[r].messages)]
            IN  /\ newest.content # << >>
                /\ Body(r).proposal = newest.content[1]

\* What does hold: the proposal is the text of an assistant message of
\* the log.
C17_ProposalIsAnAssistantText ==
    \A r \in Reqs :
        (Done(r) /\ sow_service # "mock" /\ Body(r).status = "success") =>
            \E i \in AssistantIndices(req[r].messages) :
                /\ req[r].messages[i].content # << >>
                /\ Body(r).proposal = req[r].messages[i].content[1]

(***************************************************************************)
(* C18. When the run is completed but the listed log holds no assistant    *)
(* message, the job fails with the no-response error, which carries a      *)
(* preview (role and first 100 characters) of each message of the log; the *)
(* result has status error and no proposal, and no entry is written.       *)
(***************************************************************************)
\* The run of upload r completed and its messages were listed, none of
\* them by the assistant.
CompletedWithoutAssistant(r) ==
    /\ Done(r)
    /\ sow_service # "mock"
    /\ req[r].run.status = "completed"
    /\ req[r].calls.lists = 1
    /\ Body(r).detail \notin {"messages.list", "list_messages"}
    /\ AssistantIndices(req[r].messages) = {}

C18_NoAssistantErrorWithPreview ==
    \A r \in Reqs :
        CompletedWithoutAssistant(r) =>
            /\ Body(r).status = "error"
            /\ Body(r).error = "No assistant response found in thread"
            /\ "debug_messages" \in Body(r).keys
            /\ Len(Body(r).debug_messages) = Len(req[r].messages)
            /\ \A k \in 1..Len(req[r].messages) :
                  \E j \in 1..Len(Body(r).debug_messages) :
                      Body(r).debug_messages[j] = Preview(req[r].messages[k])
            /\ "proposal" \notin Body(r).keys
            /\ req[r].thread \notin DOMAIN proposals_storage

\* What does hold: the result is an error without proposal and no entry
\* is written.
C18_NoAssistantErrorUncached ==
    \A r \in Reqs :
        CompletedWithoutAssistant(r) =>
            /\ Body(r).status = "error"
            /\ "proposal" \notin Body(r).keys
            /\ req[r].thread \notin DOMAIN proposals_storage

(***************************************************************************)
(* C19. When polling ends because max_wait was reached with the run still  *)
(* non-terminal, the request is answered with an error and the remote job  *)
(* is left alone: after the last status query no further call is made to   *)
(* the runtime for that job (no cancellation, no message listing).         *)
(***************************************************************************)
C19_NoCallAfterTimeout ==
    [][\A r \in Reqs :
          /\ (/\ req[r].pc \in {"poll", "attach_poll"}
               /\ req[r].run.status \in LoopStatuses
               /\ req[r].wait_time >= MaxWait
               /\ req'[r] # req[r]) =>
                 /\ req'[r].pc = "done"
                 /\ req'[r].calls = req[r].calls
                 /\ req'[r].run = req[r].run
                 /\ req'[r].response.body.status = "error"
                 /\ "proposal" \notin req'[r].response.body.keys
                 /\ threads_created' = threads_created
                 /\ proposals_storage' = proposals_storage
          /\ (req[r].pc = "done" /\ req[r].wait_time >= MaxWait) =>
                 req'[r].calls = req[r].calls]_vars

\* A run waiting on action was queried for max_wait_time, the request
\* was answered with the timeout error and no listing was made.
C19_Witness ==
    \E r \in Reqs :
        /\ sow_service = "live"
        /\ Done(r)
        /\ req[r].run = [status |-> "requires_action", last_error |-> FALSE]
        /\ req[r].wait_time = max_wait_time
        /\ req[r].calls.lists = 0
        /\ Body(r).detail = "Processing timeout (5 minutes exceeded)"

(***************************************************************************)
(* C20. If a submission step raises (the creation of the thread, of the    *)
(* message or of the run), the request is answered with an error payload   *)
(* carrying the error of the runtime, no status query and no listing is    *)
(* ever issued for it, and no entry is written.                            *)
(***************************************************************************)
\* The submission of upload r to the live service of simple_sow_service
\* was attempted and gave no run.
SubmissionFailed(r) ==
    /\ sow_service = "live"
    /\ Done(r)
    /\ RemoteCalls(req[r]) > 0
    /\ req[r].run.status = "none"

\* The call of the submission that upload record q attempted last.
LastSubmissionCall(q) ==
    IF q.calls.runs = 1 THEN "runs.create"
    ELSE IF q.calls.messages = 1 THEN "messages.create"
    ELSE "threads.create"

C20_SubmissionFailureIsError ==
    \A r \in Reqs :
        SubmissionFailed(r) =>
            /\ Body(r).status = "error"
            /\ Body(r).error = "Orchestrator processing failed"
            /\ Body(r).detail = LastSubmissionCall(req[r])
            /\ "proposal" \notin Body(r).keys
            /\ req[r].calls.gets = 0
            /\ req[r].calls.lists = 0
            /\ req[r].thread \notin DOMAIN proposals_storage

\* The creation of the message raised on a thread already created.
C20_Witness ==
    \E r \in Reqs :
        /\ sow_service = "live"
        /\ SubmissionFailed(r)
        /\ req[r].thread # NoThread
        /\ req[r].calls.messages = 1
        /\ Body(r).detail = "messages.create"

(***************************************************************************)
(* C21. Nothing is retried: per upload the service attempts the creation   *)
(* of the thread, of the message and of the run once each, makes one       *)
(* status query per pass of the poll loop and lists the messages at most   *)
(* once; a remote call that raises is not repeated and ends the request    *)
(* with an error.                                                          *)
(***************************************************************************)
\* The kind of call that the detail of an except-clause result names.
RaisedKind(detail) ==
    CASE detail \in {"threads.create", "create_thread"} -> "threads"
      [] detail = "upload_file" -> "files"
      [] detail \in {"messages.create", "create_message"} -> "messages"
      [] detail \in {"runs.create", "create_run"} -> "runs"
      [] detail \in {"runs.get", "get_run"} -> "gets"
      [] detail \in {"messages.list", "list_messages"} -> "lists"
      [] OTHER -> "none"

C21_NothingRetried ==
    [][\A r \in Reqs :
          LET c == req[r].calls
              d == req'[r].calls
              b == req'[r].response.body
          IN  /\ d.threads <= 1 /\ d.files <= 1 /\ d.messages <= 1
              /\ d.runs <= 1 /\ d.lists <= 1
              /\ d.gets * poll_interval = req'[r].wait_time
              /\ RemoteCalls(req'[r]) <= RemoteCalls(req[r]) + 1
              /\ (Ends(r) /\ RaisedKind(b.detail) # "none") =>
                    /\ b.status = "error"
                    /\ d[RaisedKind(b.detail)] = c[RaisedKind(b.detail)] + 1
              /\ req[r].pc = "done" => d = c]_vars

\* The second status query raised and the request ended with an error
\* after exactly two queries.
C21_Witness ==
    \E r \in Reqs :
        /\ Done(r)
        /\ RaisedKind(Body(r).detail) = "gets"
        /\ req[r].calls.gets = 2
        /\ req[r].wait_time = 2 * poll_interval
        /\ Body(r).status = "error"

(***************************************************************************)
(* C22. When the poll loop ends on a terminal status other than completed, *)
(* the request returns an error payload whose message names that status    *)
(* and carries the run's last_error whenever it has one; the messages are  *)
(* not listed and no entry is written.                                     *)
(***************************************************************************)
C22_TerminalFailureIsError ==
    \A r \in Reqs :
        (Done(r) /\ req[r].run.status \in FailStatuses) =>
            /\ Body(r).status = "error"
            /\ Body(r).error \in {"GPT-4o processing failed with status",
                                  "Processing failed with status"}
            /\ Body(r).run_status = req[r].run.status
            /\ req[r].run.last_error => Body(r).detail = "last_error"
            /\ "proposal" \notin Body(r).keys
            /\ req[r].calls.lists = 0
            /\ req[r].thread \notin DOMAIN proposals_storage

\* The same for the service of simple_sow_service alone: it holds.
C22_LiveTerminalFailureIsError ==
    sow_service = "live" => C22_TerminalFailureIsError

(***************************************************************************)
(* C23. The document text embedded in the instruction message is cut to at *)
(* most 10,000 characters, for every accepted file type and every file     *)
(* content.                                                                *)
(***************************************************************************)
C23_DocumentTextCapped ==
    applied.kind = "extract" => Len(applied.document_text) <= TextCap

\* The same for the files that are no .txt files: it holds.
C23_NonTxtDocumentTextCapped ==
    (applied.kind = "extract"
        /\ ~EndsWith(Lower(applied.filename), <<46, 116, 120, 116>>)) =>
        Len(applied.document_text) <= TextCap

(***************************************************************************)
(* C24. proposals_storage only grows: an entry is written only by a        *)
(* process_sow call whose service result is success, and a job id that is  *)
(* a key remains a key after every later operation (upload, download,      *)
(* health, stats), so the number of keys never decreases.                  *)
(***************************************************************************)
C24_StorageOnlyGrows ==
    [][/\ DOMAIN proposals_storage \subseteq DOMAIN proposals_storage'
       /\ Cardinality(DOMAIN proposals_storage')
             >= Cardinality(DOMAIN proposals_storage)
       /\ proposals_storage' # proposals_storage =>
             \E r \in Reqs :
                 /\ Ends(r)
                 /\ req'[r].response.body.status = "success"
                 /\ \A t \in DOMAIN proposals_storage' :
                       t # req'[r].response.body.thread_id =>
                           /\ t \in DOMAIN proposals_storage
                           /\ proposals_storage'[t] = proposals_storage[t]]_vars

\* Two jobs are stored and /api/stats, asked after both, counts two keys.
C24_Witness ==
    /\ Cardinality(DOMAIN proposals_storage) = 2
    /\ info.kind = "stats"
    /\ info.proposals_generated = 2

(***************************************************************************)
(* C25. Every poll loop terminates: whatever the runtime answers to the    *)
(* status queries, a run that stays unfinished for ever included, the loop *)
(* makes at most max_wait / poll_interval queries and ends, either on a    *)
(* terminal status or on the timeout, and the request then produces a      *)
(* response.                                                               *)
(***************************************************************************)
InLoop(r) == req[r].pc \in {"poll", "attach_poll"}

\* The loop of upload r was left with no status query raising.
LoopLeft(r) ==
    Done(r) /\ Polled(req[r]) /\ RaisedKind(Body(r).detail) # "gets"

C25_PollLoopTerminates ==
    /\ [](\A r \in Reqs : req[r].calls.gets * poll_interval <= MaxWait)
    /\ [](\A r \in Reqs :
            LoopLeft(r) =>
                \/ req[r].run.status \in TerminalStatuses
                \/ req[r].wait_time >= MaxWait)
    /\ \A r \in Reqs :
          InLoop(r) ~> (Done(r) /\ req[r].response.code # 0)

\* What does hold: the bound on the queries, and that every request in a
\* poll loop is answered.
C25_PollLoopEnds ==
    /\ [](\A r \in Reqs : req[r].calls.gets * poll_interval <= MaxWait)
    /\ \A r \in Reqs :
          InLoop(r) ~> (Done(r) /\ req[r].response.code # 0)

(***************************************************************************)
(* C26. The two submission strategies are functionally equivalent: given   *)
(* the same sequence of run statuses and the same message log, the service *)
(* of sow_service and the service of simple_sow_service return the same    *)
(* outcome status and, on success, the same proposal.                      *)
(***************************************************************************)
C26_StrategiesEquivalent ==
    applied.kind = "outcomes" =>
        /\ applied.simple.status = applied.attach.status
        /\ applied.simple.status = "success" =>
              applied.simple.proposal = applied.attach.proposal

(***************************************************************************)
(* C27. An error result carries the 'Processing timeout' message if and    *)
(* only if the poll loop ended because the elapsed time reached max_wait   *)
(* with the last observed status still non-terminal: a run that reaches a  *)
(* terminal failure on the very last poll is not reported as a timeout,    *)
(* and a timeout is reported as one even when the run has a last_error.    *)
(***************************************************************************)
\* The loop of upload r ended on the ceiling with the run unfinished.
TimedOut(r) ==
    /\ Done(r)
    /\ RaisedKind(Body(r).detail) = "none"
    /\ req[r].run.status \in LoopStatuses
    /\ req[r].wait_time >= MaxWait

C27_TimeoutMessageIffTimedOut ==
    \A r \in Reqs :
        (Done(r) /\ Body(r).status = "error") =>
            (Body(r).detail \in TimeoutTexts <=> TimedOut(r))

\* What does hold: the message is carried exactly by the results for a run
\* that is not completed, has no last_error, and whose loop used up
\* max_wait, whatever its status.
C27_TimeoutMessageIffNoLastError ==
    \A r \in Reqs :
        (Done(r) /\ Body(r).status = "error"
            /\ Body(r).detail # "os.unlink") =>
            (Body(r).detail \in TimeoutTexts <=>
                /\ RaisedKind(Body(r).detail) = "none"
                /\ req[r].run.status \notin {"none", "completed"}
                /\ ~req[r].run.last_error
                /\ req[r].wait_time >= MaxWait)

(***************************************************************************)
(* C28. In every result of the live service that carries processing_time,  *)
(* the value equals poll_interval times the number of status queries       *)
(* issued for that job, is a multiple of the poll interval and lies        *)
(* between 0 and max_wait inclusive; and the elapsed counter never         *)
(* decreases during polling.                                               *)
(***************************************************************************)
C28_ProcessingTimeCountsPolls ==
    [][\A r \in Reqs :
          sow_service # "mock" =>
              /\ req'[r].wait_time >= req[r].wait_time
              /\ (Done(r)' /\ "processing_time" \in Body(r)'.keys) =>
                    /\ Body(r)'.processing_time
                          = poll_interval * req'[r].calls.gets
                    /\ Body(r)'.processing_time % poll_interval = 0
                    /\ Body(r)'.processing_time >= 0
                    /\ Body(r)'.processing_time <= MaxWait]_vars

\* A live request failed after two status queries and reports 20 seconds.
C28_Witness ==
    \E r \in Reqs :
        /\ sow_service = "live"
        /\ Done(r)
        /\ "processing_time" \in Body(r).keys
        /\ req[r].calls.gets = 2
        /\ req[r].run.status = "failed"
        /\ Body(r).processing_time = 2 * poll_interval

(***************************************************************************)
(* C29. A run whose status is observed as completed on the final permitted *)
(* poll, the one at which the elapsed time becomes equal to max_wait, is   *)
(* treated as a success: its messages are listed, and when the listing and *)
(* the reading of the assistant message do not raise and there is an       *)
(* assistant message, the proposal is returned and stored; the result is   *)
(* never a timeout.                                                        *)
(***************************************************************************)
C29_CompletedOnLastPollSucceeds ==
    [][\A r \in Reqs :
          (/\ sow_service = "live"
           /\ Ends(r)
           /\ req[r].run.status = "completed"
           /\ req[r].wait_time = max_wait_time) =>
              /\ req'[r].calls.lists = req[r].calls.lists + 1
              /\ Body(r)'.detail \notin TimeoutTexts
              /\ Body(r)'.run_status = ""
              /\ (RaisedKind(Body(r)'.detail) = "none"
                    /\ Body(r)'.detail # "content[0]"
                    /\ ProposalIndex(req'[r].messages) > 0) =>
                    /\ Body(r)'.status = "success"
                    /\ Body(r)'.processing_time = max_wait_time
                    /\ JobId(r)' \in DOMAIN proposals_storage'
                    /\ proposals_storage'[JobId(r)'].proposal
                          = Body(r)'.proposal]_vars

\* A live request completed at the thirtieth query and its proposal is
\* stored.
C29_Witness ==
    \E r \in Reqs :
        /\ sow_service = "live"
        /\ Done(r)
        /\ req[r].run.status = "completed"
        /\ req[r].calls.gets * poll_interval = max_wait_time
        /\ req[r].wait_time = max_wait_time
        /\ Body(r).status = "success"
        /\ JobId(r) \in DOMAIN proposals_storage

(***************************************************************************)
(* C30. After update_orchestrator_agent returns, on every path, a failure  *)
(* of any remote call included, an orchestrator agent exists on the        *)
(* runtime: the old agent is still there or a new one has been created.    *)
(***************************************************************************)
C30_AgentExistsAfterReturn ==
    (script.pc = "returned" /\ script.returned \in {"agent", "None"}) =>
        script.agents # {}

\* What does hold: a run of the script that returns the new agent leaves
\* exactly that agent on the runtime.
C30_ReturnedAgentExists ==
    (script.pc = "returned" /\ script.returned = "agent") =>
        script.agents = {NewAgent}

====
